---- MODULE Spec2Model ----
(***************************************************************************)
(* A model of the verbatim-correction agent: the rule store and rule       *)
(* engine (rules_manager.py), the pipeline orchestrator and the document   *)
(* traversal (doc_processor.py) and the grammar corrector (llm_client.py). *)
(*                                                                         *)
(* Texts are sequences of one-character strings.  Rule names, notes, ids   *)
(* and match types are strings.                                            *)
(***************************************************************************)
EXTENDS Integers, Sequences, FiniteSets, TLC

VARIABLES
    rules,      \* RulesManager.rules: the ordered list of Rule objects
    store,      \* the file at RulesManager.path
    nalloc,     \* number of Rule objects constructed so far
    last,       \* the last RulesManager call and what it returned
    dp,         \* the DocProcessor's fields
    pt,         \* the last process_text call: its stages and its result
    doc,        \* the document opened by process_docx
    run         \* the last process_docx call: visits, outcome, saved file

vars == <<rules, store, nalloc, last, dp, pt, doc, run>>

----------------------------------------------------------------------------
(* Bounds *)

MaxRules == 2       \* add_rule is not taken beyond this many rules
MaxTextLen == 3     \* length of the texts handed to the operations
MaxFuncs == 3       \* length of DocProcessor.mcp_transform_funcs
MaxBody == 2        \* body paragraphs of a document
MaxSections == 2    \* sections of a document

\* Rule objects constructed in one behaviour
MaxAlloc == MaxRules + 1

----------------------------------------------------------------------------
(* Texts *)

TextChars == {"a", "b", "A"}

\* every text of at most n characters
RECURSIVE TextsUpTo(_)
TextsUpTo(n) ==
    IF n = 0 THEN {<<>>}
    ELSE LET shorter == TextsUpTo(n - 1)
         IN  shorter \cup {Append(t, c) : t \in shorter, c \in TextChars}

Texts == TextsUpTo(MaxTextLen)

----------------------------------------------------------------------------
(* String matching as str.replace and re.sub do it.  The characters of     *)
(* the modelled patterns are letters, "." and "(": in a regular expression *)
(* "." matches any character and an unclosed "(" does not compile.         *)

Lower(c) == IF c = "A" THEN "a" ELSE c

\* does character c of the text match pattern character p under the mode
CharMatch(mode, c, p) ==
    CASE mode = "exact"            -> c = p
      [] mode = "case_insensitive" -> Lower(c) = Lower(p)
      [] mode = "regex"            -> p = "." \/ c = p

\* the pattern matches at the start of s
MatchesAtStart(mode, s, p) ==
    /\ Len(s) >= Len(p)
    /\ \A i \in 1..Len(p) : CharMatch(mode, s[i], p[i])

\* the pattern matches somewhere in s
Occurs(mode, s, p) ==
    \E i \in 0..Len(s) : MatchesAtStart(mode, SubSeq(s, i + 1, Len(s)), p)

\* every non-overlapping match of p in s, leftmost first, replaced by new;
\* the empty pattern matches before every character and at the end
RECURSIVE Sub(_, _, _, _)
Sub(mode, s, p, new) ==
    IF p = <<>>
    THEN new \o (IF s = <<>> THEN <<>> ELSE <<Head(s)>> \o Sub(mode, Tail(s), p, new))
    ELSE IF s = <<>> THEN <<>>
    ELSE IF MatchesAtStart(mode, s, p)
         THEN new \o Sub(mode, SubSeq(s, Len(p) + 1, Len(s)), p, new)
         ELSE <<Head(s)>> \o Sub(mode, Tail(s), p, new)

\* re.compile accepts the pattern
RegexCompiles(p) == \A i \in 1..Len(p) : p[i] # "("

----------------------------------------------------------------------------
(* Rule *)

RuleFields == {"id", "name", "pattern", "replacement", "match_type", "notes"}

\* str(uuid.uuid4()) of the n-th constructed Rule: a fresh non-empty string
Uuid(n) == "u" \o ToString(n)

\* Rule.__init__: obj is the identity of the constructed object; idarg is
\* <<>> for id=None and <<s>> for id=s
NewRule(obj, name, pattern, replacement, match_type, notes, idarg) ==
    [obj |-> obj,
     id |-> IF idarg = <<>> \/ idarg[1] = "" THEN Uuid(obj) ELSE idarg[1],
     name |-> name, pattern |-> pattern, replacement |-> replacement,
     match_type |-> match_type, notes |-> notes]

to_dict(r) ==
    [id |-> r.id, name |-> r.name, pattern |-> r.pattern,
     replacement |-> r.replacement, match_type |-> r.match_type,
     notes |-> r.notes]

\* the keys from_dict reads with d[...]: a missing one is a KeyError
RequiredKeys == {"name", "pattern", "replacement"}

from_dict(obj, d) ==
    NewRule(obj, d.name, d.pattern, d.replacement,
            IF "match_type" \in DOMAIN d THEN d.match_type ELSE "exact",
            IF "notes" \in DOMAIN d THEN d.notes ELSE "",
            IF "id" \in DOMAIN d THEN <<d.id>> ELSE <<>>)

list_rules(rs) == [i \in 1..Len(rs) |-> to_dict(rs[i])]

----------------------------------------------------------------------------
(* The rule file *)

AbsentFile == [kind |-> "absent", data |-> <<>>]
CorruptFile == [kind |-> "corrupt", data |-> <<>>]
JsonFile(data) == [kind |-> "json", data |-> data]

\* RulesManager.save: the file holds the dictionaries of all rules, in order
SavedFile(rs) == JsonFile(list_rules(rs))

\* RulesManager.load: the rules read from file f, objects numbered from n + 1
LoadedRules(f, n) ==
    IF f.kind = "json" /\ \A i \in 1..Len(f.data) : RequiredKeys \subseteq DOMAIN f.data[i]
    THEN [i \in 1..Len(f.data) |-> from_dict(n + i, f.data[i])]
    ELSE <<>>

----------------------------------------------------------------------------
(* Rule engine *)

Returned(t) == [raised |-> FALSE, val |-> t]
Raised(t) == [raised |-> TRUE, val |-> t]

\* ApplyRule with an unknown match type falling through to the exact branch
ApplyRule_unknown_as_exact(r, out) ==
    CASE r.match_type = "case_insensitive" ->
            Returned(Sub("case_insensitive", out, r.pattern, r.replacement))
      [] r.match_type = "regex" ->
            IF RegexCompiles(r.pattern)
            THEN Returned(Sub("regex", out, r.pattern, r.replacement))
            ELSE Raised(out)
      [] OTHER -> Returned(Sub("exact", out, r.pattern, r.replacement))

\* one iteration of the loop of apply_rules_to_text: rule r applied to out.
\* re.sub raises re.error when a regex rule's pattern does not compile.
ApplyRule(r, out) ==
    CASE r.match_type = "exact" ->
            Returned(Sub("exact", out, r.pattern, r.replacement))
      [] r.match_type = "case_insensitive" ->
            Returned(Sub("case_insensitive", out, r.pattern, r.replacement))
      [] r.match_type = "regex" ->
            IF RegexCompiles(r.pattern)
            THEN Returned(Sub("regex", out, r.pattern, r.replacement))
            ELSE Raised(out)
      [] OTHER -> Returned(out)

\* the loop from rule i on; an exception leaves the loop and the function
RECURSIVE ApplyFrom(_, _, _)
AfterRule(rs, i, step) ==
    IF step.raised THEN step ELSE ApplyFrom(rs, i + 1, step.val)

ApplyFrom(rs, i, out) ==
    IF i > Len(rs) THEN Returned(out) ELSE AfterRule(rs, i, ApplyRule(rs[i], out))

apply_rules_to_text(rs, text) == ApplyFrom(rs, 1, text)

\* rule r finds a match in text t
RuleMatches(r, t) ==
    /\ r.match_type \in {"exact", "case_insensitive", "regex"}
    /\ r.match_type = "regex" => RegexCompiles(r.pattern)
    /\ Occurs(r.match_type, t, r.pattern)

----------------------------------------------------------------------------
(* Inputs of the rule store's operations *)

\* the arguments of add_rule
RuleInputs ==
    {[name |-> "n1", pattern |-> <<"a">>, replacement |-> <<"b">>,
      match_type |-> "exact", notes |-> ""],
     [name |-> "n2", pattern |-> <<"b">>, replacement |-> <<"c">>,
      match_type |-> "exact", notes |-> "x"],
     [name |-> "n3", pattern |-> <<"(">>, replacement |-> <<"b">>,
      match_type |-> "regex", notes |-> ""]}

\* the keyword arguments of update_rule: <<v>> is the value v, <<>> is None
UpdateKwargs ==
    {[id |-> <<"">>],
     [name |-> <<"n2">>, notes |-> <<>>],
     [pattern |-> <<<<"b">>>>, replacement |-> <<<<"c">>>>],
     [bogus |-> <<"x">>]}

\* the rule ids handed to remove_rule and update_rule: those in use and one
\* that is not
RuleIds == {rules[i].id : i \in 1..Len(rules)} \cup {"none"}

\* the texts handed to apply_rules_to_text between changes of the rules
ProbeTexts == {<<"a">>, <<"A", "b">>}

\* rule files found at construction: none, an unreadable one, one written by
\* hand without the optional keys, one written by hand without a pattern
InitFiles ==
    {AbsentFile, CorruptFile,
     JsonFile(<<[name |-> "n1", pattern |-> <<"a">>, replacement |-> <<"b">>]>>),
     JsonFile(<<[id |-> "h1", name |-> "n1", replacement |-> <<"b">>]>>)}

----------------------------------------------------------------------------
(* RulesManager *)

NoCall == [op |-> "none", ok |-> FALSE, obj |-> 0, dict |-> <<>>,
           text |-> <<>>, out |-> <<>>]

\* update_rule's inner loop: the fields of r overwritten from kw
SetAttrs(r, kw) ==
    [f \in DOMAIN r |->
        IF f \in RuleFields /\ f \in DOMAIN kw /\ kw[f] # <<>>
        THEN kw[f][1] ELSE r[f]]

\* index of the first rule with the id, 0 when there is none
FirstWithId(rs, rule_id) ==
    IF \E i \in 1..Len(rs) : rs[i].id = rule_id
    THEN CHOOSE i \in 1..Len(rs) :
            /\ rs[i].id = rule_id
            /\ \A j \in 1..(i - 1) : rs[j].id # rule_id
    ELSE 0

\* the rules whose id is not rule_id, in order
RECURSIVE WithoutId(_, _)
WithoutId(rs, rule_id) ==
    IF rs = <<>> THEN <<>>
    ELSE IF Head(rs).id = rule_id THEN WithoutId(Tail(rs), rule_id)
         ELSE <<Head(rs)>> \o WithoutId(Tail(rs), rule_id)

load ==
    /\ nalloc + Len(store.data) <= MaxAlloc
    /\ rules' = LoadedRules(store, nalloc)
    /\ nalloc' = nalloc + Len(rules')
    /\ last' = [NoCall EXCEPT !.op = "load"]
    /\ UNCHANGED <<store, dp, pt, doc, run>>

add_rule(in) ==
    /\ Len(rules) < MaxRules
    /\ nalloc < MaxAlloc
    /\ LET r == NewRule(nalloc + 1, in.name, in.pattern, in.replacement,
                        in.match_type, in.notes, <<>>)
       IN  /\ rules' = Append(rules, r)
           /\ nalloc' = nalloc + 1
           /\ store' = SavedFile(rules')
           /\ last' = [NoCall EXCEPT !.op = "add_rule", !.ok = TRUE,
                                     !.obj = r.obj, !.dict = <<to_dict(r)>>]
    /\ UNCHANGED <<dp, pt, doc, run>>

\* remove_rule without the call of save
remove_rule_unsaved(rule_id) ==
    /\ rules' = WithoutId(rules, rule_id)
    /\ last' = [NoCall EXCEPT !.op = "remove_rule",
                              !.ok = (Len(rules') # Len(rules))]
    /\ UNCHANGED <<store, nalloc, dp, pt, doc, run>>

remove_rule(rule_id) ==
    /\ rules' = WithoutId(rules, rule_id)
    /\ IF Len(rules') # Len(rules)
       THEN /\ store' = SavedFile(rules')
            /\ last' = [NoCall EXCEPT !.op = "remove_rule", !.ok = TRUE]
       ELSE /\ store' = store
            /\ last' = [NoCall EXCEPT !.op = "remove_rule", !.ok = FALSE]
    /\ UNCHANGED <<nalloc, dp, pt, doc, run>>

\* update_rule taking the rule out of the list and appending the changed one
update_rule_reappended(rule_id, kw) ==
    /\ LET i == FirstWithId(rules, rule_id)
       IN  IF i # 0
           THEN /\ rules' = Append(SubSeq(rules, 1, i - 1) \o SubSeq(rules, i + 1, Len(rules)),
                                   SetAttrs(rules[i], kw))
                /\ store' = SavedFile(rules')
                /\ last' = [NoCall EXCEPT !.op = "update_rule", !.ok = TRUE,
                                          !.obj = rules[i].obj,
                                          !.dict = <<to_dict(rules'[Len(rules')])>>]
           ELSE /\ UNCHANGED <<rules, store>>
                /\ last' = [NoCall EXCEPT !.op = "update_rule", !.ok = FALSE]
    /\ UNCHANGED <<nalloc, dp, pt, doc, run>>

update_rule(rule_id, kw) ==
    /\ LET i == FirstWithId(rules, rule_id)
       IN  IF i # 0
           THEN /\ rules' = [rules EXCEPT ![i] = SetAttrs(rules[i], kw)]
                /\ store' = SavedFile(rules')
                /\ last' = [NoCall EXCEPT !.op = "update_rule", !.ok = TRUE,
                                          !.obj = rules[i].obj,
                                          !.dict = <<to_dict(rules'[i])>>]
           ELSE /\ UNCHANGED <<rules, store>>
                /\ last' = [NoCall EXCEPT !.op = "update_rule", !.ok = FALSE]
    /\ UNCHANGED <<nalloc, dp, pt, doc, run>>

\* a call of apply_rules_to_text on the current rules
ApplyRecord(text, res) ==
    [NoCall EXCEPT !.op = "apply_rules_to_text", !.ok = ~res.raised,
                   !.text = text, !.out = res.val]

apply_rules(text) ==
    /\ last' = ApplyRecord(text, apply_rules_to_text(rules, text))
    /\ UNCHANGED <<rules, store, nalloc, dp, pt, doc, run>>

----------------------------------------------------------------------------
(* Transform functions: the callables of DocProcessor.mcp_transform_funcs. *)
(* Each is modelled by its outcome on a text: a returned text, a returned  *)
(* None, or an exception.  A coroutine function is run to completion with  *)
(* asyncio.run, so its outcome is that of its body.                        *)

TransformFuncs == {"a_to_b", "append_b_async", "raises", "raises_on_b", "returns_none"}

FuncResult(f, t) ==
    CASE f = "a_to_b" -> [kind |-> "ok", val |-> Sub("exact", t, <<"a">>, <<"b">>)]
      [] f = "append_b_async" -> [kind |-> "ok", val |-> Append(t, "b")]
      [] f = "raises" -> [kind |-> "raise", val |-> <<>>]
      [] f = "raises_on_b" ->
            IF Occurs("exact", t, <<"b">>)
            THEN [kind |-> "raise", val |-> <<>>]
            ELSE [kind |-> "ok", val |-> Sub("exact", t, <<"A">>, <<"a">>)]
      [] f = "returns_none" -> [kind |-> "none", val |-> <<>>]

\* every list of at most n transform functions
RECURSIVE FuncListsUpTo(_)
FuncListsUpTo(n) ==
    IF n = 0 THEN {<<>>}
    ELSE LET shorter == FuncListsUpTo(n - 1)
         IN  shorter \cup {Append(fs, f) : fs \in shorter, f \in TransformFuncs}

----------------------------------------------------------------------------
(* Grammar corrector: LLMClient.  dp.llm is "none" when the DocProcessor    *)
(* has no llm_client, "no_client" for an LLMClient whose client is None and *)
(* "client" for one that holds an OpenAI client.  What the service does on  *)
(* a request is an input of the call.                                       *)

LlmKinds == {"none", "no_client", "client"}

LlmBehaviours == {"error", "none_content", "says_b", "echo_padded", "garbles_A"}

\* a control character, which the XML of a document cannot hold
ControlChar == "^"

\* the text with "a" answered as "b" and "A" as the control character
Garbled(t) ==
    [i \in 1..Len(t) |-> IF t[i] = "A" THEN ControlChar
                         ELSE IF t[i] = "a" THEN "b" ELSE t[i]]

\* the outcome of client.chat.completions.create and of reading the content
LlmResponse(beh, t) ==
    CASE beh = "error" -> [kind |-> "raise", content |-> <<>>]
      [] beh = "none_content" -> [kind |-> "none", content |-> <<>>]
      [] beh = "says_b" -> [kind |-> "text", content |-> <<"b", " ">>]
      [] beh = "echo_padded" -> [kind |-> "text", content |-> <<" ">> \o t \o <<" ">>]
      [] beh = "garbles_A" -> [kind |-> "text", content |-> Garbled(t)]

\* str.strip
RECURSIVE Strip(_)
Strip(t) ==
    IF t = <<>> THEN t
    ELSE IF Head(t) = " " THEN Strip(Tail(t))
    ELSE IF t[Len(t)] = " " THEN Strip(SubSeq(t, 1, Len(t) - 1))
    ELSE t

\* the try block of correct_grammar, given the outcome of the request
Corrected(text, resp) ==
    IF resp.kind = "text"
    THEN [events |-> <<"correct_grammar", "create">>, raised |-> FALSE,
          val |-> Strip(resp.content)]
    ELSE [events |-> <<"correct_grammar", "create", "failed">>,
          raised |-> FALSE, val |-> text]

\* LLMClient.correct_grammar: events lists the calls made
correct_grammar(llm, text, beh) ==
    IF llm = "no_client"
    THEN [events |-> <<"correct_grammar">>, raised |-> FALSE, val |-> text]
    ELSE Corrected(text, LlmResponse(beh, text))

----------------------------------------------------------------------------
(* DocProcessor *)

Processor(has_rules, llm, apply_grammar, funcs) ==
    [has_rules |-> has_rules, llm |-> llm, apply_grammar |-> apply_grammar,
     funcs |-> funcs]

\* the step record of function f called on out with outcome res, the running
\* text lost when the function raises
StepLosingText(f, out, res) ==
    [func |-> f, kind |-> res.kind, in |-> out,
     out |-> IF res.kind = "ok" THEN res.val ELSE <<>>]

\* the step record of function f called on out with outcome res: the try,
\* the except with its continue, and the normalisation of the result
StepOf(f, out, res) ==
    [func |-> f, kind |-> res.kind, in |-> out,
     out |-> CASE res.kind = "raise" -> out
               [] res.kind = "none" -> <<>>
               [] OTHER -> res.val]

\* TransformStep with the running text lost when the function raises
TransformStep_raise_clears(f, out) == StepLosingText(f, out, FuncResult(f, out))

\* one iteration of the loop of _apply_transforms
TransformStep(f, out) == StepOf(f, out, FuncResult(f, out))

\* the iterations of _apply_transforms over the functions fs from text out
RECURSIVE TransformSteps(_, _)
AfterStep(fs, step) == <<step>> \o TransformSteps(fs, step.out)

TransformSteps(fs, out) ==
    IF fs = <<>> THEN <<>> ELSE AfterStep(Tail(fs), TransformStep(Head(fs), out))

\* what _apply_transforms returns after the steps
ChainResult(text, steps) ==
    [steps |-> steps,
     out |-> IF steps = <<>> THEN text ELSE steps[Len(steps)].out]

_apply_transforms(fs, text) == ChainResult(text, TransformSteps(fs, text))

_apply_local_rules(p, rs, text) ==
    IF p.has_rules THEN apply_rules_to_text(rs, text) ELSE Returned(text)

\* the try and except of _apply_llm around the call of correct_grammar
Guarded(text, res) ==
    [events |-> res.events, val |-> IF res.raised THEN text ELSE res.val]

\* _apply_llm calling the corrector whatever apply_grammar says
_apply_llm_flag_ignored(p, text, beh) ==
    IF p.llm # "none"
    THEN Guarded(text, correct_grammar(p.llm, text, beh))
    ELSE [events |-> <<>>, val |-> text]

_apply_llm(p, text, beh) ==
    IF p.apply_grammar /\ p.llm # "none"
    THEN Guarded(text, correct_grammar(p.llm, text, beh))
    ELSE [events |-> <<>>, val |-> text]

\* the record of a stage of process_text
TransformsStage(t, res) ==
    [stage |-> "transforms", in |-> t, out |-> res.out, raised |-> FALSE,
     steps |-> res.steps, events |-> <<>>]

RulesStage(t, res) ==
    [stage |-> "rules", in |-> t, out |-> res.val, raised |-> res.raised,
     steps |-> <<>>, events |-> <<>>]

LlmStage(t, res) ==
    [stage |-> "llm", in |-> t, out |-> res.val, raised |-> FALSE,
     steps |-> <<>>, events |-> res.events]

\* one stage of process_text on text t
Stage(name, p, rs, t, beh) ==
    CASE name = "transforms" -> TransformsStage(t, _apply_transforms(p.funcs, t))
      [] name = "rules" -> RulesStage(t, _apply_local_rules(p, rs, t))
      [] name = "llm" -> LlmStage(t, _apply_llm(p, t, beh))

\* the stages named in order run from text t; an exception ends the run
RECURSIVE RunStages(_, _, _, _, _)
AfterStage(order, p, rs, st, beh) ==
    IF st.raised THEN <<st>> ELSE <<st>> \o RunStages(order, p, rs, st.out, beh)

RunStages(order, p, rs, t, beh) ==
    IF order = <<>> THEN <<>>
    ELSE AfterStage(Tail(order), p, rs, Stage(Head(order), p, rs, t, beh), beh)

\* StageOrder with the rule engine before the transforms in the else branch
StageOrder_rules_before_transforms(apply_rules_first) ==
    IF apply_rules_first THEN <<"transforms", "rules", "llm">>
    ELSE <<"llm", "rules", "transforms">>

StageOrder(apply_rules_first) ==
    IF apply_rules_first THEN <<"transforms", "rules", "llm">>
    ELSE <<"llm", "transforms", "rules">>

\* DocProcessor.process_text: the stages run, whether an exception left the
\* call, and the returned text
TextResult(stages) ==
    [stages |-> stages, raised |-> stages[Len(stages)].raised,
     out |-> stages[Len(stages)].out]

process_text(p, rs, orig_text, apply_rules_first, beh) ==
    TextResult(RunStages(StageOrder(apply_rules_first), p, rs, orig_text, beh))

NoProcessor == Processor(FALSE, "none", FALSE, <<>>)
NoText == [called |-> FALSE, text |-> <<>>, first |-> FALSE, stages |-> <<>>,
           raised |-> FALSE, out |-> <<>>]

----------------------------------------------------------------------------
(* Document: the python-docx Document read by process_docx.  paras maps    *)
(* every paragraph to the texts of its runs; body, tables and sections     *)
(* hold paragraphs by their number.  A section whose header and footer are *)
(* linked to the previous section exposes that section's paragraphs.       *)

\* the concatenation of a sequence of sequences
RECURSIVE Concat(_)
Concat(ss) == IF ss = <<>> THEN <<>> ELSE Head(ss) \o Concat(Tail(ss))

\* paragraph.text
ParagraphText(runs) == Concat(runs)

Unit(part, sec, tbl, row, cell, par, pid) ==
    [part |-> part, sec |-> sec, tbl |-> tbl, row |-> row, cell |-> cell,
     par |-> par, pid |-> pid]

\* the loop over doc.paragraphs
BodyUnits(d) ==
    [k \in 1..Len(d.body) |-> Unit("body", 0, 0, 0, 0, k, d.body[k])]

\* the loops over doc.tables, table.rows, row.cells and cell.paragraphs
TableUnits(d) ==
    Concat([t \in 1..Len(d.tables) |->
      Concat([r \in 1..Len(d.tables[t]) |->
        Concat([c \in 1..Len(d.tables[t][r]) |->
          [k \in 1..Len(d.tables[t][r][c]) |->
              Unit("table", 0, t, r, c, k, d.tables[t][r][c][k])]])])])

HeaderUnits(d, s) ==
    [k \in 1..Len(d.sections[s].header) |->
        Unit("header", s, 0, 0, 0, k, d.sections[s].header[k])]

FooterUnits(d, s) ==
    [k \in 1..Len(d.sections[s].footer) |->
        Unit("footer", s, 0, 0, 0, k, d.sections[s].footer[k])]

\* the footers and headers swapped in the loop over the sections
SectionUnits_footer_first(d) ==
    Concat([s \in 1..Len(d.sections) |-> FooterUnits(d, s) \o HeaderUnits(d, s)])

\* the loop over doc.sections: each section's header, then its footer
SectionUnits(d) ==
    Concat([s \in 1..Len(d.sections) |-> HeaderUnits(d, s) \o FooterUnits(d, s)])

\* the paragraphs in the order process_docx reaches them
VisitOrder(d) == BodyUnits(d) \o TableUnits(d) \o SectionUnits(d)

\* run.text = "" for every run of the paragraph
Cleared(runs) == [i \in 1..Len(runs) |-> <<>>]

\* can the XML of the document hold the text: python-docx raises ValueError
\* when a run is given a text with a control character
XmlCompatible(text) == \A i \in 1..Len(text) : text[i] # ControlChar

\* the runs when the assignment of new_text raises: the runs are cleared
\* already, and add_run has added its run before it sets the text
Interrupted(runs) == IF runs # <<>> THEN Cleared(runs) ELSE << <<>> >>

\* only the first run set, the other runs left as they were
_replace_paragraph_text_first_run_only(runs, new_text) ==
    IF runs # <<>>
    THEN [i \in 1..Len(runs) |-> IF i = 1 THEN new_text ELSE runs[i]]
    ELSE <<new_text>>

\* DocProcessor._replace_paragraph_text on a paragraph of the given runs,
\* when it returns: the runs it leaves
_replace_paragraph_text(runs, new_text) ==
    IF runs # <<>>
    THEN [i \in 1..Len(runs) |-> IF i = 1 THEN new_text ELSE <<>>]
    ELSE <<new_text>>

\* the call of _replace_paragraph_text: the runs it leaves and whether it
\* raised
Replaced(runs, new_text) ==
    IF XmlCompatible(new_text)
    THEN [raised |-> FALSE, runs |-> _replace_paragraph_text(runs, new_text)]
    ELSE [raised |-> TRUE, runs |-> Interrupted(runs)]

\* every visited paragraph rewritten, changed or not
Written_unconditionally(runs, original, processed) ==
    Replaced(runs, processed)

\* the body of the loop after process_text, for a paragraph of the given
\* runs whose text was original and was processed to processed
Written(runs, original, processed) ==
    IF processed # original
    THEN Replaced(runs, processed)
    ELSE [raised |-> FALSE, runs |-> runs]

\* the record of one pass of the loop body for unit u: the runs of the
\* paragraph before it, what process_text returned (<<>> when it raised)
\* and the runs of the paragraph after it
Visit(u, before, out, after) ==
    [part |-> u.part, sec |-> u.sec, tbl |-> u.tbl, row |-> u.row,
     cell |-> u.cell, par |-> u.par, pid |-> u.pid,
     before |-> before, out |-> out, after |-> after]

\* the loops of process_docx over the units from paragraphs paras on: the
\* passes made, the paragraphs as they are left, and whether an exception
\* ended process_docx
RECURSIVE Traverse(_, _, _, _, _, _)

\* visit v put before the outcome of the units after it
Visited(v, rest) ==
    [paras |-> rest.paras, visited |-> <<v>> \o rest.visited,
     raised |-> rest.raised]

\* the loop body for unit u after process_text returned out, w being the
\* outcome of the rewriting, and the units after u
AfterWrite(u, units, paras, p, rs, apply_rules_first, beh, out, w) ==
    IF w.raised
    THEN [paras |-> [paras EXCEPT ![u.pid] = w.runs],
          visited |-> <<Visit(u, paras[u.pid], <<out>>, w.runs)>>,
          raised |-> TRUE]
    ELSE Visited(Visit(u, paras[u.pid], <<out>>, w.runs),
                 Traverse(units, [paras EXCEPT ![u.pid] = w.runs],
                          p, rs, apply_rules_first, beh))

\* the loop body for unit u, res being the outcome of process_text on the
\* paragraph's text, and the units after u
AfterText(u, units, paras, p, rs, apply_rules_first, beh, res) ==
    IF res.raised
    THEN [paras |-> paras,
          visited |-> <<Visit(u, paras[u.pid], <<>>, paras[u.pid])>>,
          raised |-> TRUE]
    ELSE AfterWrite(u, units, paras, p, rs, apply_rules_first, beh, res.out,
                    Written(paras[u.pid], ParagraphText(paras[u.pid]), res.out))

Traverse(units, paras, p, rs, apply_rules_first, beh) ==
    IF units = <<>> THEN [paras |-> paras, visited |-> <<>>, raised |-> FALSE]
    ELSE AfterText(Head(units), Tail(units), paras, p, rs, apply_rules_first, beh,
                   process_text(p, rs, ParagraphText(paras[Head(units).pid]),
                                apply_rules_first, beh))

NoDoc == [paras |-> <<>>, body |-> <<>>, tables |-> <<>>, sections |-> <<>>]
NoRun == [called |-> FALSE, first |-> FALSE, visited |-> <<>>, raised |-> FALSE,
          paras |-> <<>>, saved |-> <<>>]

\* doc.save reached whether or not the loops raised
RunResult_saves_always(apply_rules_first, res) ==
    [called |-> TRUE, first |-> apply_rules_first,
     visited |-> res.visited, raised |-> res.raised, paras |-> res.paras,
     saved |-> <<res.paras>>]

\* the outcome of process_docx after the loops: doc.save is reached when no
\* exception left them
RunResult(apply_rules_first, res) ==
    [called |-> TRUE, first |-> apply_rules_first,
     visited |-> res.visited, raised |-> res.raised, paras |-> res.paras,
     saved |-> IF res.raised THEN <<>> ELSE <<res.paras>>]

\* DocProcessor.process_docx: the document is read, every unit is processed
\* and the document is saved; saved is <<>> when doc.save was not reached
process_docx(apply_rules_first, beh) ==
    /\ run' = RunResult(apply_rules_first,
                        Traverse(VisitOrder(doc), doc.paras, dp, rules,
                                 apply_rules_first, beh))
    /\ UNCHANGED <<rules, store, nalloc, last, dp, pt, doc>>

\* the texts handed to process_text
ProcessTexts == {<<>>, <<"a">>, <<"A", "b">>, <<"b", "a">>}

\* a call of process_text
CallRecord(text, apply_rules_first, res) ==
    [called |-> TRUE, text |-> text, first |-> apply_rules_first,
     stages |-> res.stages, raised |-> res.raised, out |-> res.out]

call_process_text(text, apply_rules_first, beh) ==
    /\ pt' = CallRecord(text, apply_rules_first,
                        process_text(dp, rules, text, apply_rules_first, beh))
    /\ UNCHANGED <<rules, store, nalloc, last, dp, doc, run>>

----------------------------------------------------------------------------
(* The rule store on its own: RulesManager(path) and then any calls *)

InitRules ==
    /\ \E f \in InitFiles :
          /\ store = f
          /\ rules = LoadedRules(f, 0)
          /\ nalloc = Len(rules)
    /\ last = NoCall
    /\ dp = NoProcessor
    /\ pt = NoText
    /\ doc = NoDoc
    /\ run = NoRun

NextRules ==
    \/ load
    \/ \E in \in RuleInputs : add_rule(in)
    \/ \E id \in RuleIds : remove_rule(id)
    \/ \E id \in RuleIds, kw \in UpdateKwargs : update_rule(id, kw)
    \/ \E t \in ProbeTexts : apply_rules(t)

SpecRules == InitRules /\ [][NextRules]_vars

----------------------------------------------------------------------------
(* The rule engine on its own: a rule collection as add_rule builds it,    *)
(* then calls of apply_rules_to_text                                       *)

\* rules of every match type, among them ones whose output can match again
EngineRuleInputs ==
    {[name |-> "n1", pattern |-> <<"a">>, replacement |-> <<"b">>,
      match_type |-> "exact", notes |-> ""],
     [name |-> "n2", pattern |-> <<"b">>, replacement |-> <<"c">>,
      match_type |-> "exact", notes |-> "x"],
     [name |-> "n1", pattern |-> <<"a", "b">>, replacement |-> <<"a">>,
      match_type |-> "case_insensitive", notes |-> ""],
     [name |-> "n4", pattern |-> <<"a", "b">>, replacement |-> <<"a">>,
      match_type |-> "fuzzy", notes |-> ""],
     [name |-> "n5", pattern |-> <<".", "b">>, replacement |-> <<"b">>,
      match_type |-> "regex", notes |-> ""]}

\* the rule lists of the pipeline and document runs: none, one of the
\* engine's rules, a regex that does not compile
OneRuleLists ==
    {<<>>} \cup
    {<<NewRule(1, in.name, in.pattern, in.replacement, in.match_type,
               in.notes, <<>>)>> : in \in EngineRuleInputs \cup RuleInputs}

\* the rule lists add_rule builds from the inputs, one call per element
RECURSIVE AddedRules(_)
AddedRules(n) ==
    IF n = 0 THEN {<<>>}
    ELSE LET shorter == AddedRules(n - 1)
         IN  shorter \cup
             {Append(rs, NewRule(Len(rs) + 1, in.name, in.pattern, in.replacement,
                                 in.match_type, in.notes, <<>>)) :
                  rs \in shorter, in \in EngineRuleInputs}

InitEngine ==
    /\ rules \in AddedRules(MaxRules)
    /\ store = IF rules = <<>> THEN AbsentFile ELSE SavedFile(rules)
    /\ nalloc = Len(rules)
    /\ last = NoCall
    /\ dp = NoProcessor
    /\ pt = NoText
    /\ doc = NoDoc
    /\ run = NoRun

NextEngine == \E t \in Texts : apply_rules(t)

SpecEngine == InitEngine /\ [][NextEngine]_vars

----------------------------------------------------------------------------
(* The pipeline on its own: a DocProcessor is constructed, with or without *)
(* a RulesManager and an LLMClient, and process_text is called             *)

\* the transform lists of the pipeline runs
FewFuncLists == {<<>>, <<"a_to_b">>, <<"raises", "append_b_async">>}

InitPipeline ==
    /\ rules \in OneRuleLists
    /\ store = IF rules = <<>> THEN AbsentFile ELSE SavedFile(rules)
    /\ nalloc = Len(rules)
    /\ last = NoCall
    /\ \E has_rules \in BOOLEAN, llm \in LlmKinds, apply_grammar \in BOOLEAN,
          funcs \in FewFuncLists :
          /\ ~has_rules => rules = <<>>
          /\ dp = Processor(has_rules, llm, apply_grammar, funcs)
    /\ pt = NoText
    /\ doc = NoDoc
    /\ run = NoRun

NextPipeline ==
    \E t \in ProcessTexts, first \in BOOLEAN, beh \in LlmBehaviours :
        call_process_text(t, first, beh)

SpecPipeline == InitPipeline /\ [][NextPipeline]_vars

(* The transform chain on its own: a DocProcessor with transform functions *)
(* only                                                                    *)

InitChain ==
    /\ rules = <<>>
    /\ store = AbsentFile
    /\ nalloc = 0
    /\ last = NoCall
    /\ \E funcs \in FuncListsUpTo(MaxFuncs) :
          dp = Processor(FALSE, "none", FALSE, funcs)
    /\ pt = NoText
    /\ doc = NoDoc
    /\ run = NoRun

SpecChain == InitChain /\ [][NextPipeline]_vars

----------------------------------------------------------------------------
(* Documents: a DocProcessor is constructed and process_docx is called on  *)
(* a document                                                              *)

\* the runs a paragraph can have: one, two, none, two with an empty one
RunChoices ==
    << <<<<"a">>>>, <<<<"A">>, <<"b">>>>, <<>>, <<<<"b">>, <<>>>> >>

\* the shapes of the one table of a document: rows and cells per row
TableShapes == {<<0, 0>>, <<1, 2>>, <<2, 1>>}

\* a document of nbody body paragraphs, a table of the shape (one paragraph
\* per cell), nsec sections of hp header paragraphs and one footer
\* paragraph each, the later sections linked to the first or not, and the
\* runs of RunChoices dealt to the paragraphs from the given one on
MakeDoc(nbody, shape, nsec, linked, hp, first_runs) ==
    LET ncell == shape[1] * shape[2]
        base == nbody + ncell
        per == hp + 1
        own(s) == IF linked THEN 1 ELSE s
        total == base + per * (IF linked THEN 1 ELSE nsec)
    IN  [paras |-> [k \in 1..total |->
                      RunChoices[((k + first_runs) % Len(RunChoices)) + 1]],
         body |-> [k \in 1..nbody |-> k],
         tables |-> IF ncell = 0 THEN <<>>
                    ELSE <<[r \in 1..shape[1] |->
                             [c \in 1..shape[2] |->
                                <<nbody + (r - 1) * shape[2] + c>>]]>>,
         sections |-> [s \in 1..nsec |->
                         [header |-> [k \in 1..hp |-> base + per * (own(s) - 1) + k],
                          footer |-> <<base + per * (own(s) - 1) + per>>]]]

Documents ==
    {MakeDoc(nbody, shape, nsec, linked, hp, first_runs) :
        nbody \in 0..MaxBody, shape \in TableShapes, nsec \in 1..MaxSections,
        linked \in BOOLEAN, hp \in 1..2, first_runs \in {0, 2}}

\* the rule lists of the document runs: none, a->b, a regex that does not
\* compile
DocumentRules ==
    {rs \in OneRuleLists : \A i \in 1..Len(rs) : rs[i].match_type \in {"exact", "regex"}
                                               /\ rs[i].name \in {"n1", "n3"}}

InitDocx ==
    /\ rules \in DocumentRules
    /\ store = IF rules = <<>> THEN AbsentFile ELSE SavedFile(rules)
    /\ nalloc = Len(rules)
    /\ last = NoCall
    /\ \E has_rules \in BOOLEAN, llm \in {"none", "client"},
          funcs \in {<<>>, <<"a_to_b">>} :
          /\ ~has_rules <=> rules = <<>>
          /\ dp = Processor(has_rules, llm, llm # "none", funcs)
    /\ pt = NoText
    /\ doc \in Documents
    /\ run = NoRun

NextDocx ==
    \E first \in BOOLEAN, beh \in LlmBehaviours : process_docx(first, beh)

SpecDocx == InitDocx /\ [][NextDocx]_vars

----------------------------------------------------------------------------
(* Properties of the document traversal *)

\* the place of a unit in the order of C10 as stated: body, tables, all
\* headers, all footers
PhaseKey(u) ==
    CASE u.part = "body" -> <<1, 0, 0, 0, u.par>>
      [] u.part = "table" -> <<2, u.tbl, u.row, u.cell, u.par>>
      [] u.part = "header" -> <<3, u.sec, 0, 0, u.par>>
      [] u.part = "footer" -> <<4, u.sec, 0, 0, u.par>>

\* the place of a unit in the order of C10 as amended: body, tables, then
\* section by section the header and the footer
SectionKey(u) ==
    CASE u.part = "body" -> <<1, 0, 0, 0, u.par>>
      [] u.part = "table" -> <<2, u.tbl, u.row, u.cell, u.par>>
      [] u.part = "header" -> <<3, u.sec, 1, 0, u.par>>
      [] u.part = "footer" -> <<3, u.sec, 2, 0, u.par>>

\* key a comes before key b
KeyBefore(a, b) ==
    \E i \in 1..5 : a[i] < b[i] /\ \A j \in 1..(i - 1) : a[j] = b[j]

\* C10 as stated: process_docx visits the body paragraphs in order, then
\* the table paragraphs (tables, rows, cells, paragraphs in order), then the
\* header paragraphs of all sections in section order, and only then the
\* footer paragraphs of all sections in section order.
C10_HeadersThenFooters ==
    \A i, j \in 1..Len(run.visited) :
        i < j => KeyBefore(PhaseKey(run.visited[i]), PhaseKey(run.visited[j]))

\* C10 amended: process_docx visits the body paragraphs in order, then the
\* table paragraphs (tables, rows, cells, paragraphs in order), then for
\* each section in section order its header paragraphs followed by its
\* footer paragraphs.
C10_HeaderFooterPerSection ==
    \A i, j \in 1..Len(run.visited) :
        i < j => KeyBefore(SectionKey(run.visited[i]), SectionKey(run.visited[j]))

\* C10 witness: a saved run over body paragraphs, a table of two rows and
\* two sections, the first section's footer visited before the second
\* section's header
C10_Witness ==
    /\ run.called /\ ~run.raised /\ run.saved # <<>>
    /\ Len(doc.body) = 2 /\ Len(doc.tables) = 1 /\ Len(doc.tables[1]) = 2
    /\ Len(doc.sections) = 2
    /\ Len(run.visited) = Len(VisitOrder(doc))
    /\ \E i \in 1..(Len(run.visited) - 1) :
          /\ run.visited[i].part = "footer" /\ run.visited[i].sec = 1
          /\ run.visited[i + 1].part = "header" /\ run.visited[i + 1].sec = 2

\* the visits of a run that reach paragraph pid
VisitsOf(pid) == {i \in 1..Len(run.visited) : run.visited[i].pid = pid}

\* the paragraphs of the table cells of the document
CellCount(d) ==
    Len(Concat([t \in 1..Len(d.tables) |->
                  Concat([r \in 1..Len(d.tables[t]) |-> d.tables[t][r]])]))

\* a document of one section with one header and one footer paragraph
OneSectionDoc(d) ==
    /\ Len(d.sections) = 1
    /\ Len(d.sections[1].header) = 1 /\ Len(d.sections[1].footer) = 1

\* C11: a run of process_docx that returns has passed every paragraph of
\* the document (body, table cell, section header, section footer) to
\* process_text exactly once, none of them twice; on N body paragraphs,
\* one table of R rows by C cells with one paragraph each and one section
\* with one header and one footer paragraph it has made exactly
\* N + R*C + 2 visits.
C11_EveryParagraphOnce ==
    run.called /\ ~run.raised =>
        /\ \A pid \in DOMAIN doc.paras : Cardinality(VisitsOf(pid)) = 1
        /\ OneSectionDoc(doc) =>
              Len(run.visited) = Len(doc.body) + CellCount(doc) + 2

\* C11 on the documents of one section only: the count of the visits, and
\* no paragraph reached twice
C11_CountForOneSection ==
    run.called /\ ~run.raised /\ OneSectionDoc(doc) =>
        /\ Len(run.visited) = Len(doc.body) + CellCount(doc) + 2
        /\ \A pid \in DOMAIN doc.paras : Cardinality(VisitsOf(pid)) = 1

\* did pass v of the loop body get a text from process_text that differs
\* from the paragraph's text
TextDiffers(v) == v.out # <<>> /\ v.out[1] # ParagraphText(v.before)

\* C12: a pass of the loop body whose processed text equals the
\* paragraph's original text leaves the runs of the paragraph as they were
\* (none written, cleared or added); only a pass whose processed text
\* differs changes runs, and a paragraph no pass changed has at the end of
\* the run the runs the document was read with.
C12_UnchangedParagraphUntouched ==
    run.called =>
        /\ \A i \in 1..Len(run.visited) :
              /\ ~TextDiffers(run.visited[i]) =>
                    run.visited[i].after = run.visited[i].before
              /\ run.visited[i].after # run.visited[i].before =>
                    TextDiffers(run.visited[i])
        /\ \A pid \in DOMAIN doc.paras :
              (\A i \in VisitsOf(pid) : ~TextDiffers(run.visited[i])) =>
                  run.paras[pid] = doc.paras[pid]

\* C12 witness: a run that returned in which a paragraph of two runs and a
\* paragraph of no run were processed to their own text and kept their
\* runs, while another paragraph was rewritten
C12_Witness ==
    /\ run.called /\ ~run.raised
    /\ \E i, j, k \in 1..Len(run.visited) :
          /\ Len(run.visited[i].before) = 2 /\ run.visited[i].before[2] # <<>>
          /\ ~TextDiffers(run.visited[i])
          /\ run.visited[i].after = run.visited[i].before
          /\ run.visited[j].before = <<>> /\ ~TextDiffers(run.visited[j])
          /\ run.visited[j].after = <<>>
          /\ TextDiffers(run.visited[k])
          /\ run.visited[k].after # run.visited[k].before

\* did an exception end pass v of the loop body: process_text raised, or
\* the paragraph was to be rewritten with a text its runs cannot hold
PassRaised(v) ==
    \/ v.out = <<>>
    \/ TextDiffers(v) /\ \E c \in 1..Len(v.out[1]) : v.out[1][c] = ControlChar

\* C13: process_docx saves the document only after every unit has been
\* visited, and saves it as the loops left it; when an exception is raised
\* while a unit is visited or rewritten, that unit is the last one visited,
\* the exception reaches the caller and the document is not saved, so no
\* half-modified document is written.
C13_SavedOnlyAfterAllVisited ==
    run.called =>
        /\ run.saved # <<>> =>
              /\ ~run.raised
              /\ Len(run.visited) = Len(VisitOrder(doc))
              /\ \A i \in 1..Len(run.visited) :
                    run.visited[i].pid = VisitOrder(doc)[i].pid
              /\ run.saved[1] = run.paras
        /\ \A i \in 1..Len(run.visited) :
              PassRaised(run.visited[i]) =>
                  /\ i = Len(run.visited)
                  /\ run.raised
                  /\ run.saved = <<>>
        /\ run.raised => run.saved = <<>>
        /\ ~run.raised => run.saved # <<>>

\* C13 witness: a run in which a paragraph was rewritten, a later
\* paragraph raised while it was rewritten and was left with its runs
\* cleared, units were left unvisited, and nothing was saved
C13_Witness ==
    /\ run.called /\ run.raised /\ run.saved = <<>>
    /\ 1 < Len(run.visited) /\ Len(run.visited) < Len(VisitOrder(doc))
    /\ run.visited[Len(run.visited)].out # <<>>
    /\ run.visited[Len(run.visited)].after # run.visited[Len(run.visited)].before
    /\ \E i \in 1..(Len(run.visited) - 1) :
          /\ TextDiffers(run.visited[i])
          /\ run.visited[i].after = <<run.visited[i].out[1]>>
    /\ run.paras # doc.paras

\* did pass v of the loop body call _replace_paragraph_text and the call
\* return
Rewritten(v) == TextDiffers(v) /\ ~PassRaised(v)

\* C14: after _replace_paragraph_text(paragraph, new_text) has returned, a
\* paragraph that had runs has as many runs as before, the first holding
\* exactly new_text and every other one the empty string; a paragraph
\* that had no run has exactly one run, holding new_text; in both cases
\* the run texts concatenated are new_text.
C14_ReplaceParagraphText ==
    \A i \in 1..Len(run.visited) :
        Rewritten(run.visited[i]) =>
            /\ run.visited[i].before # <<>> =>
                  /\ Len(run.visited[i].after) = Len(run.visited[i].before)
                  /\ run.visited[i].after[1] = run.visited[i].out[1]
                  /\ \A k \in 2..Len(run.visited[i].after) :
                        run.visited[i].after[k] = <<>>
            /\ run.visited[i].before = <<>> =>
                  /\ Len(run.visited[i].after) = 1
                  /\ run.visited[i].after[1] = run.visited[i].out[1]
            /\ ParagraphText(run.visited[i].after) = run.visited[i].out[1]

\* C14 witness: a run that rewrote a paragraph of two runs whose second
\* run held text, and a paragraph of no run
C14_Witness ==
    /\ run.called
    /\ \E i, j \in 1..Len(run.visited) :
          /\ Rewritten(run.visited[i])
          /\ Len(run.visited[i].before) = 2 /\ run.visited[i].before[2] # <<>>
          /\ run.visited[i].after = <<run.visited[i].out[1], <<>>>>
          /\ Rewritten(run.visited[j])
          /\ run.visited[j].before = <<>>
          /\ run.visited[j].after = <<run.visited[j].out[1]>>

----------------------------------------------------------------------------
(* Properties of the pipeline *)

\* the stage of the last process_text call with the name, if it ran
StagesNamed(name) ==
    {i \in 1..Len(pt.stages) : pt.stages[i].stage = name}

\* C1: the stages of a process_text call are run in the order chosen by
\* apply_rules_first (transforms, rules, grammar or grammar, transforms,
\* rules), none twice, the first on the input text and every other on the
\* output of the one before; a call that returns has run all three and
\* returns the output of the last, and only the rule stage ends a call early.
C1_StageOrder ==
    pt.called =>
        LET order == IF pt.first THEN <<"transforms", "rules", "llm">>
                                 ELSE <<"llm", "transforms", "rules">>
            n == Len(pt.stages)
        IN  /\ n \in 1..3
            /\ \A i \in 1..n : pt.stages[i].stage = order[i]
            /\ pt.stages[1].in = pt.text
            /\ \A i \in 2..n : pt.stages[i].in = pt.stages[i - 1].out
            /\ ~pt.raised => n = 3 /\ pt.out = pt.stages[3].out
            /\ pt.raised => pt.stages[n].stage = "rules"

\* C1 witness: a call in the reverse order in which all three stages changed
\* the text
C1_Witness ==
    /\ pt.called /\ ~pt.first /\ ~pt.raised
    /\ Len(pt.stages) = 3
    /\ \A i \in 1..3 : pt.stages[i].out # pt.stages[i].in

\* the functions of fs at the positions where the step did not raise
RECURSIVE NotRaising(_, _)
NotRaising(fs, steps) ==
    IF fs = <<>> THEN <<>>
    ELSE IF Head(steps).kind = "raise" THEN NotRaising(Tail(fs), Tail(steps))
         ELSE <<Head(fs)>> \o NotRaising(Tail(fs), Tail(steps))

\* C2: _apply_transforms runs every function of the list, in order, each on
\* the running text; a function that raises leaves the running text as it
\* was; the result is that of the list without the functions that raised.
C2_FailingTransformIsolated ==
    \A s \in StagesNamed("transforms") :
        LET st == pt.stages[s]
            n == Len(st.steps)
        IN  /\ n = Len(dp.funcs)
            /\ \A i \in 1..n :
                   /\ st.steps[i].func = dp.funcs[i]
                   /\ st.steps[i].in = IF i = 1 THEN st.in ELSE st.steps[i - 1].out
                   /\ st.steps[i].kind = FuncResult(dp.funcs[i], st.steps[i].in).kind
                   /\ st.steps[i].kind = "raise" => st.steps[i].out = st.steps[i].in
            /\ st.out = IF n = 0 THEN st.in ELSE st.steps[n].out
            /\ st.out = _apply_transforms(NotRaising(dp.funcs, st.steps), st.in).out

\* C2 witness: a function that raised between two that changed the text
C2_Witness ==
    \E s \in StagesNamed("transforms") :
        LET st == pt.stages[s]
        IN  /\ Len(st.steps) = 3
            /\ st.steps[1].kind = "ok" /\ st.steps[1].out # st.steps[1].in
            /\ st.steps[2].kind = "raise"
            /\ st.steps[3].kind = "ok" /\ st.steps[3].out # st.steps[3].in

\* C4: the grammar stage calls correct_grammar exactly when apply_grammar
\* is set and an LLMClient is configured, and returns its input otherwise;
\* when the corrector fails (it has no client, the request raises or the
\* response has no content) the stage returns its input, and the stage does
\* not end the process_text call with an exception.
C4_GrammarGuardedAndContained ==
    \A s \in StagesNamed("llm") :
        LET st == pt.stages[s]
            called == st.events # <<>>
        IN  /\ called <=> (dp.apply_grammar /\ dp.llm # "none")
            /\ called => st.events[1] = "correct_grammar"
            /\ ~called => st.out = st.in
            /\ (called /\ dp.llm = "no_client") => st.out = st.in
            /\ (called /\ st.events[Len(st.events)] = "failed") => st.out = st.in
            /\ ~st.raised
            /\ (s = Len(pt.stages)) => ~pt.raised

\* C4 witness: the corrector was called on a text the transforms had changed,
\* and the request failed
C4_Witness ==
    /\ pt.called /\ pt.first /\ ~pt.raised
    /\ pt.stages[1].out # pt.text
    /\ pt.stages[3].events = <<"correct_grammar", "create", "failed">>
    /\ pt.out = pt.stages[3].in

----------------------------------------------------------------------------
(* Properties of the rule engine and the rule store *)

\* the rules that apply_rules_to_text can apply without an exception
RECURSIVE Applicable(_)
Applicable(rs) ==
    IF rs = <<>> THEN <<>>
    ELSE IF Head(rs).match_type = "regex" /\ ~RegexCompiles(Head(rs).pattern)
         THEN Applicable(Tail(rs))
         ELSE <<Head(rs)>> \o Applicable(Tail(rs))

\* C3: a call of apply_rules_to_text returns, whatever the rules, and its
\* result is that of the rules whose application does not fail, all of them
\* applied in order.
C3_FailingRuleSkipped ==
    last.op = "apply_rules_to_text" =>
        /\ last.ok
        /\ last.out = apply_rules_to_text(Applicable(rules), last.text).val

\* the first rule fed with t, its output fed to the rest
RECURSIVE Chained(_, _)
Chained(rs, t) ==
    IF rs = <<>> THEN t ELSE Chained(Tail(rs), ApplyRule(Head(rs), t).val)

IsRule(r, pattern, replacement) ==
    r.pattern = pattern /\ r.replacement = replacement /\ r.match_type = "exact"

\* C5: the rules are always held in the order their objects were created
\* (added or loaded), whatever was updated or removed in between, and a call
\* of apply_rules_to_text that returns gives the first rule's output to the
\* second and so on; a->b before b->c turns "a" into "c", b->c before a->b
\* turns "a" into "b".
C5_InsertionOrder ==
    /\ \A i, j \in 1..Len(rules) : i < j => rules[i].obj < rules[j].obj
    /\ (last.op = "apply_rules_to_text" /\ last.ok) =>
           /\ last.out = Chained(rules, last.text)
           /\ (/\ Len(rules) = 2 /\ last.text = <<"a">>
               /\ IsRule(rules[1], <<"a">>, <<"b">>)
               /\ IsRule(rules[2], <<"b">>, <<"c">>)) => last.out = <<"c">>
           /\ (/\ Len(rules) = 2 /\ last.text = <<"a">>
               /\ IsRule(rules[1], <<"b">>, <<"c">>)
               /\ IsRule(rules[2], <<"a">>, <<"b">>)) => last.out = <<"b">>

\* C5 witness: the first rule created was removed, the third was updated from
\* a->b to b->c, and the two survivors turn "a" into "c"
C5_Witness ==
    /\ last.op = "apply_rules_to_text" /\ last.ok
    /\ last.text = <<"a">> /\ last.out = <<"c">>
    /\ Len(rules) = 2
    /\ rules[1].obj = 2 /\ IsRule(rules[1], <<"a">>, <<"b">>)
    /\ rules[2].obj = 3 /\ rules[2].name = "n1" /\ IsRule(rules[2], <<"b">>, <<"c">>)

\* C6 as stated: when no rule's pattern matches that rule's own replacement,
\* applying the rules to the output of apply_rules_to_text changes nothing.
C6_IdempotentIfNoSelfMatch ==
    (/\ last.op = "apply_rules_to_text" /\ last.ok
     /\ \A i \in 1..Len(rules) : ~RuleMatches(rules[i], rules[i].replacement))
    => apply_rules_to_text(rules, last.out) = Returned(last.out)

\* C6 amended: when no rule's pattern matches anywhere in the output of
\* apply_rules_to_text, applying the rules to that output changes nothing.
C6_IdempotentIfNoMatchLeft ==
    (/\ last.op = "apply_rules_to_text" /\ last.ok
     /\ \A i \in 1..Len(rules) : ~RuleMatches(rules[i], last.out))
    => apply_rules_to_text(rules, last.out) = Returned(last.out)

\* C6 witness: two rules rewrote the text and none matches the result
C6_Witness ==
    /\ last.op = "apply_rules_to_text" /\ last.ok
    /\ Len(rules) = 2
    /\ last.out # last.text
    /\ \E i \in 1..2 : rules[i].match_type = "fuzzy"
    /\ \A i \in 1..Len(rules) : ~RuleMatches(rules[i], last.out)

\* C7: saving a non-empty rule list and loading the file gives rules with
\* the same id, name, pattern, replacement, match_type and notes, in the
\* same order.
C7_SaveLoadRoundTrip ==
    rules # <<>> =>
        list_rules(LoadedRules(SavedFile(rules), nalloc)) = list_rules(rules)

\* C8: no two rules of the list have the same id.
C8_UniqueIds ==
    \A i, j \in 1..Len(rules) : i # j => rules[i].id # rules[j].id

ChangedRules ==
    last.op \in {"add_rule", "update_rule", "remove_rule"} /\ last.ok

\* C9: when add_rule, update_rule or remove_rule has changed the list, the
\* file holds the dictionaries of exactly the rules in memory, in order, and
\* the dictionary returned by add_rule or update_rule is that of the added or
\* updated rule as it now is in the list.
C9_PersistedAfterChange ==
    /\ ChangedRules => store = SavedFile(rules)
    /\ (ChangedRules /\ last.op = "add_rule") =>
           /\ rules[Len(rules)].obj = last.obj
           /\ last.dict = <<to_dict(rules[Len(rules)])>>
    /\ (ChangedRules /\ last.op = "update_rule") =>
           \E i \in 1..Len(rules) :
               rules[i].obj = last.obj /\ last.dict = <<to_dict(rules[i])>>

\* C9 witness: the second of two rules was updated from a->b to b->c after
\* another rule had been removed
C9_Witness ==
    /\ ChangedRules /\ last.op = "update_rule"
    /\ Len(rules) = 2 /\ rules[1].obj = 2
    /\ last.obj = rules[2].obj
    /\ last.dict[1].name = "n1" /\ last.dict[1].pattern = <<"b">>

====
